---- MODULE Spec2Model ----
(***************************************************************************)
(* Weather station control loop (src/src/lib.rs, src/src/main.rs).         *)
(*                                                                         *)
(* Two edge-event channels (rain gauge, anemometer): a GPIO interrupt      *)
(* callback sets an atomic flag, the main loop drains the flag into an     *)
(* atomic u32 counter and re-enables the one-shot interrupt.               *)
(* A time gate, check_time_passed(), lets the main loop sample and publish *)
(* once per 10 s.  get_wind_direction() maps a raw angle to a sector.      *)
(*                                                                         *)
(* Time is in milliseconds.  Thread 0 is the main loop; threads            *)
(* 1..NCallers are further contexts calling check_time_passed().           *)
(***************************************************************************)
EXTENDS Integers, Sequences, FiniteSets, TLC

VARIABLES
    RAIN_FLAG,        \* lib.rs:34  AtomicBool
    ROTATION_FLAG,    \* lib.rs:35  AtomicBool
    ROTATION_COUNT,   \* lib.rs:36  AtomicU32
    RAIN_COUNT,       \* lib.rs:37  AtomicU32
    rain_armed,       \* GPIO25 interrupt enabled (one-shot: disabled upon firing)
    anemo_armed,      \* GPIO27 interrupt enabled
    LAST_TIME,        \* lib.rs:99  Lazy<Mutex<Instant>>: Uninit or an instant
    lock,             \* owner of the LAST_TIME mutex, or Free
    clock,            \* the monotonic clock, Instant::now()
    pc,               \* pc[t]: position of thread t
    now,              \* now[t]: local `now` of check_time_passed (lib.rs:101)
    seen,             \* seen[t]: the *last_time read by the comparison (lib.rs:104)
    ret,              \* ret[t]: value returned by check_time_passed
    tmp,              \* main loop: the count loaded by a drain (lib.rs:116/128)
    angle_result,     \* result of as5600.angle() (lib.rs:155)
    wind_direction,   \* main.rs:79
    bme_result,       \* result of bme.measure() (lib.rs:140)
    bme_readings,     \* main.rs:80
    outbox,           \* what the tick handed to the publisher (main.rs:84-87)
    rain_err,         \* an error of the rain re-arm was logged (lib.rs:120)
    anemo_err,        \* an error of the anemometer re-arm was logged (lib.rs:134)
    \* history variables (not program state)
    rain_signals,     \* calls of rain_pin_callback so far
    rot_signals,      \* calls of anemo_pin_callback so far
    rain_since,       \* calls of rain_pin_callback since check_rain_flag last began
    rot_since,
    rain_batch,       \* rain_since as the running/last check_rain_flag found it
    rot_batch,
    rain_entry,       \* RAIN_COUNT as the running/last check_rain_flag found it
    rot_entry,
    rain_overrun,     \* calls of rain_pin_callback that found RAIN_FLAG already set
    rot_overrun,
    fired,            \* clock readings of the calls that returned true, in order
    ticks_since,      \* delays of the main loop since the last sample (or the first tick)
    drift,            \* time the loop took beyond its 200 ms delays since the last sample
    jitter_used,      \* number of loop iterations that took longer than the delay
    advances,         \* number of clock advances made by the scheduler harness
    first_use         \* the clock when LAST_TIME was initialised, or Uninit

chan_vars  == <<RAIN_FLAG, ROTATION_FLAG, ROTATION_COUNT, RAIN_COUNT,
                rain_armed, anemo_armed, tmp, rain_err, anemo_err>>
chan_hist  == <<rain_signals, rot_signals, rain_since, rot_since,
                rain_batch, rot_batch, rain_entry, rot_entry,
                rain_overrun, rot_overrun>>
time_vars  == <<LAST_TIME, lock, clock, now, seen, ret>>
time_hist  == <<fired, ticks_since, drift, jitter_used, advances, first_use>>
sense_vars == <<angle_result, wind_direction, bme_result, bme_readings, outbox>>
vars == <<chan_vars, chan_hist, time_vars, time_hist, sense_vars, pc>>

----------------------------------------------------------------------------
(* Program constants *)

Half      == 65536        \* 2^16: an AtomicU32 is kept as <<high half, low half>>
U16Max    == 65535        \* as5600.angle() yields a u16
Interval  == 10000        \* Duration::from_secs(10)
Delay     == 200          \* FreeRtos::delay_ms(200)
FullTurn  == 360          \* 360.0
RawSteps  == 4096         \* 4096.0

(* Bounds of the model *)

NCallers     == 2      \* contexts besides the main loop calling check_time_passed
MaxSignals   == 2      \* interrupts delivered per channel
MaxClock     == 20400  \* the clock stops here
JitterStep   == 100    \* extra time a loop iteration may take
MaxJitter    == 2      \* iterations that may take extra time
MaxAdvances  == 2      \* clock advances between concurrent callers
MaxCalls     == 3      \* callback calls per channel made by the channel harness

Main     == 0
Threads  == 0..NCallers
Aux      == 1..NCallers
Uninit   == -1
Free     == -1

Ok(v)    == [ok |-> TRUE, value |-> v]
Err      == [ok |-> FALSE]
None     == {}
Some(v)  == {v}
NoData   == [tag |-> "none"]

----------------------------------------------------------------------------
(* Interrupt callbacks *)

\* mutant: the callback stores false
rain_pin_callback_StoresFalse ==
    /\ RAIN_FLAG' = FALSE
    /\ rain_signals' = rain_signals + 1
    /\ rain_since' = rain_since + 1
    /\ rain_overrun' = IF RAIN_FLAG THEN rain_overrun + 1 ELSE rain_overrun

\* lib.rs:39-41
rain_pin_callback ==
    /\ RAIN_FLAG' = TRUE
    /\ rain_signals' = rain_signals + 1
    /\ rain_since' = rain_since + 1
    /\ rain_overrun' = IF RAIN_FLAG THEN rain_overrun + 1 ELSE rain_overrun

\* lib.rs:43-45
anemo_pin_callback ==
    /\ ROTATION_FLAG' = TRUE
    /\ rot_signals' = rot_signals + 1
    /\ rot_since' = rot_since + 1
    /\ rot_overrun' = IF ROTATION_FLAG THEN rot_overrun + 1 ELSE rot_overrun

\* mutant: the interrupt stays enabled after it fired
RainInterrupt_StaysArmed ==
    /\ rain_armed
    /\ rain_signals < MaxSignals
    /\ pc[Main] # "panicked"
    /\ rain_armed' = TRUE
    /\ rain_pin_callback
    /\ UNCHANGED <<ROTATION_FLAG, ROTATION_COUNT, RAIN_COUNT, anemo_armed, tmp,
                   rain_err, anemo_err, rot_signals, rot_since, rot_overrun,
                   rain_batch, rot_batch, rain_entry, rot_entry,
                   time_vars, time_hist, sense_vars, pc>>

\* A rising edge on GPIO25 while its interrupt is enabled: the driver disables
\* the interrupt (lib.rs:112-113) and runs the subscribed callback (lib.rs:88).
RainInterrupt ==
    /\ rain_armed
    /\ rain_signals < MaxSignals
    /\ pc[Main] # "panicked"
    /\ rain_armed' = FALSE
    /\ rain_pin_callback
    /\ UNCHANGED <<ROTATION_FLAG, ROTATION_COUNT, RAIN_COUNT, anemo_armed, tmp,
                   rain_err, anemo_err, rot_signals, rot_since, rot_overrun,
                   rain_batch, rot_batch, rain_entry, rot_entry,
                   time_vars, time_hist, sense_vars, pc>>

\* A rising edge on GPIO27 while its interrupt is enabled (lib.rs:89).
AnemoInterrupt ==
    /\ anemo_armed
    /\ rot_signals < MaxSignals
    /\ pc[Main] # "panicked"
    /\ anemo_armed' = FALSE
    /\ anemo_pin_callback
    /\ UNCHANGED <<RAIN_FLAG, ROTATION_COUNT, RAIN_COUNT, rain_armed, tmp,
                   rain_err, anemo_err, rain_signals, rain_since, rain_overrun,
                   rain_batch, rot_batch, rain_entry, rot_entry,
                   time_vars, time_hist, sense_vars, pc>>

----------------------------------------------------------------------------
(* u32 arithmetic: a u32 is <<hi, lo>>, its value hi * 2^16 + lo *)

U32(n)  == <<n \div Half, n % Half>>
U32Max  == <<Half - 1, Half - 1>>

\* x + 1 modulo 2^32
Succ32(x) ==
    IF x[2] + 1 < Half THEN <<x[1], x[2] + 1>>
    ELSE IF x[1] + 1 < Half THEN <<x[1] + 1, 0>>
    ELSE <<0, 0>>

\* `x + 1` on u32 (lib.rs:116, lib.rs:128): the sum, or on overflow either the
\* wrapped sum (overflow checks off) or a panic (overflow checks on).
AddOne(x) ==
    IF x # U32Max
    THEN {[panic |-> FALSE, value |-> Succ32(x)]}
    ELSE {[panic |-> FALSE, value |-> Succ32(x)],
          [panic |-> TRUE, value |-> x]}

\* enable_interrupt() (lib.rs:119, lib.rs:133): Ok or Err.
EnableOutcomes == {TRUE, FALSE}

Goto(t, p) == pc' = [pc EXCEPT ![t] = p]

----------------------------------------------------------------------------
(* check_rain_flag, lib.rs:114-123, one atomic access per step *)

\* mutant: the drain of the rain channel tests the anemometer's flag
RainLoadFlag_WrongFlag ==
    /\ pc[Main] = "rain_load_flag"
    /\ rain_batch' = rain_since
    /\ rain_since' = 0
    /\ rain_entry' = RAIN_COUNT
    /\ Goto(Main, IF ROTATION_FLAG THEN "rain_load_count" ELSE "rot_load_flag")
    /\ UNCHANGED <<chan_vars, rain_signals, rot_signals, rot_since, rot_batch,
                   rot_entry, rain_overrun, rot_overrun,
                   time_vars, time_hist, sense_vars>>

\* mutant: the drain does not test the flag
RainLoadFlag_Unconditional ==
    /\ pc[Main] = "rain_load_flag"
    /\ rain_batch' = rain_since
    /\ rain_since' = 0
    /\ rain_entry' = RAIN_COUNT
    /\ Goto(Main, "rain_load_count")
    /\ UNCHANGED <<chan_vars, rain_signals, rot_signals, rot_since, rot_batch,
                   rot_entry, rain_overrun, rot_overrun,
                   time_vars, time_hist, sense_vars>>

\* mutant: the re-arm is outside the `if`
RainLoadFlag_AlwaysRearm ==
    /\ pc[Main] = "rain_load_flag"
    /\ rain_batch' = rain_since
    /\ rain_since' = 0
    /\ rain_entry' = RAIN_COUNT
    /\ Goto(Main, IF RAIN_FLAG THEN "rain_load_count" ELSE "rain_rearm")
    /\ UNCHANGED <<chan_vars, rain_signals, rot_signals, rot_since, rot_batch,
                   rot_entry, rain_overrun, rot_overrun,
                   time_vars, time_hist, sense_vars>>

\* lib.rs:115  if RAIN_FLAG.load(Relaxed)
RainLoadFlag ==
    /\ pc[Main] = "rain_load_flag"
    /\ rain_batch' = rain_since
    /\ rain_since' = 0
    /\ rain_entry' = RAIN_COUNT
    /\ Goto(Main, IF RAIN_FLAG THEN "rain_load_count" ELSE "rot_load_flag")
    /\ UNCHANGED <<chan_vars, rain_signals, rot_signals, rot_since, rot_batch,
                   rot_entry, rain_overrun, rot_overrun,
                   time_vars, time_hist, sense_vars>>

\* lib.rs:116  RAIN_COUNT.load(Relaxed)
RainLoadCount ==
    /\ pc[Main] = "rain_load_count"
    /\ tmp' = RAIN_COUNT
    /\ Goto(Main, "rain_store_count")
    /\ UNCHANGED <<RAIN_FLAG, ROTATION_FLAG, ROTATION_COUNT, RAIN_COUNT,
                   rain_armed, anemo_armed, rain_err, anemo_err,
                   chan_hist, time_vars, time_hist, sense_vars>>

\* lib.rs:116  RAIN_COUNT.store(.. + 1, Relaxed)
RainStoreCount ==
    /\ pc[Main] = "rain_store_count"
    /\ \E o \in AddOne(tmp) :
          /\ RAIN_COUNT' = IF o.panic THEN RAIN_COUNT ELSE o.value
          /\ Goto(Main, IF o.panic THEN "panicked" ELSE "rain_clear_flag")
    /\ tmp' = U32(0)
    /\ UNCHANGED <<RAIN_FLAG, ROTATION_FLAG, ROTATION_COUNT,
                   rain_armed, anemo_armed, rain_err, anemo_err,
                   chan_hist, time_vars, time_hist, sense_vars>>

\* mutant: the flag is not reset
RainClearFlag_Skipped ==
    /\ pc[Main] = "rain_clear_flag"
    /\ Goto(Main, "rain_rearm")
    /\ UNCHANGED <<chan_vars, chan_hist, time_vars, time_hist, sense_vars>>

\* lib.rs:117  RAIN_FLAG.store(false, Relaxed)
RainClearFlag ==
    /\ pc[Main] = "rain_clear_flag"
    /\ RAIN_FLAG' = FALSE
    /\ Goto(Main, "rain_rearm")
    /\ UNCHANGED <<ROTATION_FLAG, ROTATION_COUNT, RAIN_COUNT,
                   rain_armed, anemo_armed, tmp, rain_err, anemo_err,
                   chan_hist, time_vars, time_hist, sense_vars>>

\* mutant: the error of enable_interrupt() is unwrapped
RainRearm_Unwrap ==
    /\ pc[Main] = "rain_rearm"
    /\ \E enabled \in EnableOutcomes :
          /\ rain_armed' = (rain_armed \/ enabled)
          /\ rain_err' = (rain_err \/ ~enabled)
          /\ Goto(Main, IF enabled THEN "rot_load_flag" ELSE "panicked")
    /\ UNCHANGED <<RAIN_FLAG, ROTATION_FLAG, ROTATION_COUNT, RAIN_COUNT,
                   anemo_armed, tmp, anemo_err,
                   chan_hist, time_vars, time_hist, sense_vars>>

\* mutant: a failed enable_interrupt() leaves the line enabled all the same
RainRearm_ArmedAnyway ==
    /\ pc[Main] = "rain_rearm"
    /\ \E enabled \in EnableOutcomes :
          /\ rain_armed' = TRUE
          /\ rain_err' = (rain_err \/ ~enabled)
    /\ Goto(Main, "rot_load_flag")
    /\ UNCHANGED <<RAIN_FLAG, ROTATION_FLAG, ROTATION_COUNT, RAIN_COUNT,
                   anemo_armed, tmp, anemo_err,
                   chan_hist, time_vars, time_hist, sense_vars>>

\* lib.rs:118-121  pin_rain.enable_interrupt().map_err(log).ok()
RainRearm ==
    /\ pc[Main] = "rain_rearm"
    /\ \E enabled \in EnableOutcomes :
          /\ rain_armed' = (rain_armed \/ enabled)
          /\ rain_err' = (rain_err \/ ~enabled)
    /\ Goto(Main, "rot_load_flag")
    /\ UNCHANGED <<RAIN_FLAG, ROTATION_FLAG, ROTATION_COUNT, RAIN_COUNT,
                   anemo_armed, tmp, anemo_err,
                   chan_hist, time_vars, time_hist, sense_vars>>

(* check_rotation_flag, lib.rs:125-137 *)

\* lib.rs:126  if ROTATION_FLAG.load(Relaxed)
RotLoadFlag ==
    /\ pc[Main] = "rot_load_flag"
    /\ rot_batch' = rot_since
    /\ rot_since' = 0
    /\ rot_entry' = ROTATION_COUNT
    /\ Goto(Main, IF ROTATION_FLAG THEN "rot_load_count" ELSE "ctp_now")
    /\ UNCHANGED <<chan_vars, rain_signals, rot_signals, rain_since, rain_batch,
                   rain_entry, rain_overrun, rot_overrun,
                   time_vars, time_hist, sense_vars>>

\* lib.rs:128  ROTATION_COUNT.load(Relaxed)
RotLoadCount ==
    /\ pc[Main] = "rot_load_count"
    /\ tmp' = ROTATION_COUNT
    /\ Goto(Main, "rot_store_count")
    /\ UNCHANGED <<RAIN_FLAG, ROTATION_FLAG, ROTATION_COUNT, RAIN_COUNT,
                   rain_armed, anemo_armed, rain_err, anemo_err,
                   chan_hist, time_vars, time_hist, sense_vars>>

\* lib.rs:127-130  ROTATION_COUNT.store(.. + 1, Relaxed)
RotStoreCount ==
    /\ pc[Main] = "rot_store_count"
    /\ \E o \in AddOne(tmp) :
          /\ ROTATION_COUNT' = IF o.panic THEN ROTATION_COUNT ELSE o.value
          /\ Goto(Main, IF o.panic THEN "panicked" ELSE "rot_clear_flag")
    /\ tmp' = U32(0)
    /\ UNCHANGED <<RAIN_FLAG, ROTATION_FLAG, RAIN_COUNT,
                   rain_armed, anemo_armed, rain_err, anemo_err,
                   chan_hist, time_vars, time_hist, sense_vars>>

\* lib.rs:131  ROTATION_FLAG.store(false, Relaxed)
RotClearFlag ==
    /\ pc[Main] = "rot_clear_flag"
    /\ ROTATION_FLAG' = FALSE
    /\ Goto(Main, "rot_rearm")
    /\ UNCHANGED <<RAIN_FLAG, ROTATION_COUNT, RAIN_COUNT,
                   rain_armed, anemo_armed, tmp, rain_err, anemo_err,
                   chan_hist, time_vars, time_hist, sense_vars>>

\* lib.rs:132-135  pin_anemo.enable_interrupt().map_err(log).ok()
RotRearm ==
    /\ pc[Main] = "rot_rearm"
    /\ \E enabled \in EnableOutcomes :
          /\ anemo_armed' = (anemo_armed \/ enabled)
          /\ anemo_err' = (anemo_err \/ ~enabled)
    /\ Goto(Main, "ctp_now")
    /\ UNCHANGED <<RAIN_FLAG, ROTATION_FLAG, ROTATION_COUNT, RAIN_COUNT,
                   rain_armed, tmp, rain_err,
                   chan_hist, time_vars, time_hist, sense_vars>>

----------------------------------------------------------------------------
(* check_time_passed, lib.rs:98-110, called by thread t *)

\* mutant: the distance between the two instants, whichever is later
duration_since_Distance(later, earlier) ==
    IF later >= earlier THEN later - earlier ELSE earlier - later

\* Instant::duration_since: saturates to zero when `earlier` is later.
duration_since(later, earlier) == IF later >= earlier THEN later - earlier ELSE 0

\* mutant: `>` for `>=`
Elapsed_Strict(n, last) == duration_since(n, last) > Interval

\* lib.rs:104  now.duration_since(*last_time) >= Duration::from_secs(10)
Elapsed(n, last) == duration_since(n, last) >= Interval

\* mutant: no mutual exclusion
LockFree_Always == TRUE

\* lib.rs:102  Mutex::lock blocks while another thread holds the guard.
LockFree == lock = Free

\* lib.rs:101  let now = Instant::now();
CtpNow(t) ==
    /\ pc[t] = "ctp_now"
    /\ now' = [now EXCEPT ![t] = clock]
    /\ Goto(t, "ctp_lazy")
    /\ UNCHANGED <<chan_vars, chan_hist, LAST_TIME, lock, clock, seen, ret,
                   time_hist, sense_vars>>

\* mutant: LAST_TIME holds the time of the process start
CtpLazy_FromStart(t) ==
    /\ pc[t] = "ctp_lazy"
    /\ LAST_TIME' = IF LAST_TIME = Uninit THEN 0 ELSE LAST_TIME
    /\ ticks_since' = IF t = Main /\ LAST_TIME = Uninit THEN 0 ELSE ticks_since
    /\ first_use' = IF LAST_TIME = Uninit THEN clock ELSE first_use
    /\ Goto(t, "ctp_lock")
    /\ UNCHANGED <<chan_vars, chan_hist, lock, clock, now, seen, ret,
                   fired, drift, jitter_used, advances, sense_vars>>

\* lib.rs:99,102  first use of LAST_TIME runs Lazy::new(|| Mutex::new(Instant::now()))
CtpLazy(t) ==
    /\ pc[t] = "ctp_lazy"
    /\ LAST_TIME' = IF LAST_TIME = Uninit THEN clock ELSE LAST_TIME
    /\ ticks_since' = IF t = Main /\ LAST_TIME = Uninit THEN 0 ELSE ticks_since
    /\ first_use' = IF LAST_TIME = Uninit THEN clock ELSE first_use
    /\ Goto(t, "ctp_lock")
    /\ UNCHANGED <<chan_vars, chan_hist, lock, clock, now, seen, ret,
                   fired, drift, jitter_used, advances, sense_vars>>

\* lib.rs:102  let mut last_time = LAST_TIME.lock().unwrap();
CtpLock(t) ==
    /\ pc[t] = "ctp_lock"
    /\ LockFree
    /\ lock' = t
    /\ Goto(t, "ctp_cmp")
    /\ UNCHANGED <<chan_vars, chan_hist, LAST_TIME, clock, now, seen, ret,
                   time_hist, sense_vars>>

\* lib.rs:104 and, when the interval has not passed, lib.rs:109 (guard dropped)
CtpCmp(t) ==
    /\ pc[t] = "ctp_cmp"
    /\ seen' = [seen EXCEPT ![t] = LAST_TIME]
    /\ IF Elapsed(now[t], LAST_TIME)
       THEN /\ Goto(t, "ctp_reset")
            /\ UNCHANGED <<lock, ret>>
       ELSE /\ ret' = [ret EXCEPT ![t] = FALSE]
            /\ lock' = Free
            /\ Goto(t, "ctp_ret")
    /\ UNCHANGED <<chan_vars, chan_hist, LAST_TIME, clock, now,
                   time_hist, sense_vars>>

\* mutant: the last time is not reset
CtpReset_NoReset(t) ==
    /\ pc[t] = "ctp_reset"
    /\ ret' = [ret EXCEPT ![t] = TRUE]
    /\ lock' = Free
    /\ fired' = Append(fired, now[t])
    /\ Goto(t, "ctp_ret")
    /\ UNCHANGED <<chan_vars, chan_hist, LAST_TIME, clock, now, seen,
                   ticks_since, drift, jitter_used, advances, first_use,
                   sense_vars>>

\* mutant: the last time is reset to a fresh clock reading
CtpReset_FreshClock(t) ==
    /\ pc[t] = "ctp_reset"
    /\ LAST_TIME' = clock
    /\ ret' = [ret EXCEPT ![t] = TRUE]
    /\ lock' = Free
    /\ fired' = Append(fired, now[t])
    /\ Goto(t, "ctp_ret")
    /\ UNCHANGED <<chan_vars, chan_hist, clock, now, seen,
                   ticks_since, drift, jitter_used, advances, first_use,
                   sense_vars>>

\* lib.rs:105-106  *last_time = now; return true;  (guard dropped)
CtpReset(t) ==
    /\ pc[t] = "ctp_reset"
    /\ LAST_TIME' = now[t]
    /\ ret' = [ret EXCEPT ![t] = TRUE]
    /\ lock' = Free
    /\ fired' = Append(fired, now[t])
    /\ Goto(t, "ctp_ret")
    /\ UNCHANGED <<chan_vars, chan_hist, clock, now, seen,
                   ticks_since, drift, jitter_used, advances, first_use,
                   sense_vars>>

----------------------------------------------------------------------------
(* get_wind_direction, lib.rs:154-177 *)

\* lib.rs:163  (reading as f32) * (360.0 / 4096.0), as the numerator over 4096:
\* 360/4096 = 45 * 2^-9 and reading * 45 < 2^24, so the f32 product is exact.
AngleNum(reading) == reading * FullTurn

\* d degrees over the same denominator
Deg(d) == d * RawSteps

\* mutant: sectors closed at their upper end
Sector_UpperInclusive(a) ==
    IF      a > Deg(0)   /\ a <= Deg(45)  THEN "N"
    ELSE IF a > Deg(45)  /\ a <= Deg(90)  THEN "NE"
    ELSE IF a > Deg(90)  /\ a <= Deg(135) THEN "E"
    ELSE IF a > Deg(135) /\ a <= Deg(180) THEN "SE"
    ELSE IF a > Deg(180) /\ a <= Deg(225) THEN "S"
    ELSE IF a > Deg(225) /\ a <= Deg(270) THEN "SW"
    ELSE IF a > Deg(270) /\ a <= Deg(315) THEN "W"
    ELSE IF a > Deg(315) /\ a <= Deg(360) THEN "NW"
    ELSE "Invalid Angle"

\* mutant: the last sector has no upper end
Sector_OpenEnded(a) ==
    IF      a >= Deg(0)   /\ a < Deg(45)  THEN "N"
    ELSE IF a >= Deg(45)  /\ a < Deg(90)  THEN "NE"
    ELSE IF a >= Deg(90)  /\ a < Deg(135) THEN "E"
    ELSE IF a >= Deg(135) /\ a < Deg(180) THEN "SE"
    ELSE IF a >= Deg(180) /\ a < Deg(225) THEN "S"
    ELSE IF a >= Deg(225) /\ a < Deg(270) THEN "SW"
    ELSE IF a >= Deg(270) /\ a < Deg(315) THEN "W"
    ELSE IF a >= Deg(315) THEN "NW"
    ELSE "Invalid Angle"

\* lib.rs:164-174
Sector(a) ==
    IF      a >= Deg(0)   /\ a < Deg(45)  THEN "N"
    ELSE IF a >= Deg(45)  /\ a < Deg(90)  THEN "NE"
    ELSE IF a >= Deg(90)  /\ a < Deg(135) THEN "E"
    ELSE IF a >= Deg(135) /\ a < Deg(180) THEN "SE"
    ELSE IF a >= Deg(180) /\ a < Deg(225) THEN "S"
    ELSE IF a >= Deg(225) /\ a < Deg(270) THEN "SW"
    ELSE IF a >= Deg(270) /\ a < Deg(315) THEN "W"
    ELSE IF a >= Deg(315) /\ a < Deg(360) THEN "NW"
    ELSE "Invalid Angle"

\* mutant: a failed read is classified as a reading of 0
get_wind_direction_DefaultsToZero(res) ==
    Sector(AngleNum(IF res.ok THEN res.value ELSE 0))

\* lib.rs:154-177
get_wind_direction(res) ==
    IF ~res.ok THEN "NA" ELSE Sector(AngleNum(res.value))

(* get_bme_readings, lib.rs:139-152 *)

\* lib.rs:144-149
ZeroData ==
    [temperature |-> 0, pressure |-> 0, humidity |-> 0, gas_resistance |-> None]

\* mutant: the substitute reading reports a gas resistance of zero
get_bme_readings_GasZero(res) ==
    IF res.ok THEN res.value
    ELSE [temperature |-> 0, pressure |-> 0, humidity |-> 0,
          gas_resistance |-> Some(0)]

\* lib.rs:139-152
get_bme_readings(res) ==
    IF res.ok THEN res.value ELSE ZeroData

(* What the external drivers may answer on a sampling tick *)

SampleAngles == {0, 1535, 1536, 4095}
AngleResults == {Err} \cup {Ok(r) : r \in SampleAngles}
BmeResults ==
    {Err,
     Ok([temperature |-> 21, pressure |-> 1013, humidity |-> 40,
         gas_resistance |-> Some(12)])}

\* mqtt::publish_rain_data(&mut mqtt_cli), main.rs:87: reports the current counts
publish_rain_data == [rain |-> RAIN_COUNT, rotation |-> ROTATION_COUNT]

----------------------------------------------------------------------------
(* The main loop, main.rs:74-91 *)

\* main.rs:78  if check_time_passed() { .. }
MainCtpReturn ==
    /\ pc[Main] = "ctp_ret"
    /\ Goto(Main, IF ret[Main] THEN "wind" ELSE "delay")
    /\ UNCHANGED <<chan_vars, chan_hist, time_vars, time_hist, sense_vars>>

\* main.rs:79  let wind_direction = get_wind_direction(&mut as5600);
MainWind ==
    /\ pc[Main] = "wind"
    /\ \E res \in AngleResults :
          /\ angle_result' = res
          /\ wind_direction' = get_wind_direction(res)
    /\ Goto(Main, "bme")
    /\ UNCHANGED <<chan_vars, chan_hist, time_vars, time_hist,
                   bme_result, bme_readings, outbox>>

\* main.rs:80  let bme_readings = get_bme_readings(&mut bme);
MainBme ==
    /\ pc[Main] = "bme"
    /\ \E res \in BmeResults :
          /\ bme_result' = res
          /\ bme_readings' = get_bme_readings(res)
    /\ Goto(Main, "publish")
    /\ UNCHANGED <<chan_vars, chan_hist, time_vars, time_hist,
                   angle_result, wind_direction, outbox>>

\* main.rs:84-87  the readings are handed to the publisher
MainPublish ==
    /\ pc[Main] = "publish"
    /\ outbox' = [bme |-> bme_readings, wind |-> wind_direction,
                  counts |-> publish_rain_data]
    /\ ticks_since' = 0
    /\ drift' = 0
    /\ Goto(Main, "delay")
    /\ UNCHANGED <<chan_vars, chan_hist, time_vars, fired, jitter_used, advances,
                   first_use,
                   angle_result, wind_direction, bme_result, bme_readings>>

\* The time one loop iteration takes beyond the delay.
Jitters == {0, JitterStep}

\* main.rs:90  FreeRtos::delay_ms(200); the iteration's locals are dropped
MainDelay ==
    /\ pc[Main] = "delay"
    /\ \E j \in Jitters :
          /\ j > 0 => jitter_used < MaxJitter
          /\ IF clock + Delay + j <= MaxClock
             THEN /\ clock' = clock + Delay + j
                  /\ drift' = drift + j
                  /\ jitter_used' = IF j > 0 THEN jitter_used + 1 ELSE jitter_used
                  /\ ticks_since' = ticks_since + 1
             ELSE \* the clock has reached the model's horizon and stands still
                  /\ j = 0
                  /\ UNCHANGED <<clock, drift, jitter_used, ticks_since>>
    /\ now' = [now EXCEPT ![Main] = 0]
    /\ seen' = [seen EXCEPT ![Main] = 0]
    /\ ret' = [ret EXCEPT ![Main] = FALSE]
    /\ angle_result' = NoData
    /\ wind_direction' = ""
    /\ bme_result' = NoData
    /\ bme_readings' = NoData
    /\ outbox' = NoData
    /\ Goto(Main, "rain_load_flag")
    /\ UNCHANGED <<chan_vars, chan_hist, LAST_TIME, lock, fired, advances,
                   first_use>>

\* One step of the main thread
MainStep ==
    \/ RainLoadFlag \/ RainLoadCount \/ RainStoreCount \/ RainClearFlag \/ RainRearm
    \/ RotLoadFlag \/ RotLoadCount \/ RotStoreCount \/ RotClearFlag \/ RotRearm
    \/ CtpNow(Main) \/ CtpLazy(Main) \/ CtpLock(Main) \/ CtpCmp(Main) \/ CtpReset(Main)
    \/ MainCtpReturn \/ MainWind \/ MainBme \/ MainPublish \/ MainDelay

----------------------------------------------------------------------------
(* The station: main loop and the two interrupt lines *)

\* set_intterupt (lib.rs:78-96) returns at its first error, which main only logs
\* (main.rs:37-38): lines enabled at loop entry, as <<rain, anemo>>.
ArmOutcomes == {<<TRUE, TRUE>>, <<TRUE, FALSE>>, <<FALSE, FALSE>>}

InitCommon ==
    /\ RAIN_FLAG = FALSE /\ ROTATION_FLAG = FALSE
    /\ tmp = U32(0) /\ rain_err = FALSE /\ anemo_err = FALSE
    /\ LAST_TIME = Uninit /\ lock = Free /\ clock = 0
    /\ now = [t \in Threads |-> 0]
    /\ seen = [t \in Threads |-> 0]
    /\ ret = [t \in Threads |-> FALSE]
    /\ wind_direction = ""
    /\ bme_result = NoData /\ bme_readings = NoData /\ outbox = NoData
    /\ rain_signals = 0 /\ rot_signals = 0
    /\ rain_since = 0 /\ rot_since = 0
    /\ rain_batch = 0 /\ rot_batch = 0
    /\ rain_entry = RAIN_COUNT /\ rot_entry = ROTATION_COUNT
    /\ rain_overrun = 0 /\ rot_overrun = 0
    /\ fired = <<>> /\ ticks_since = 0 /\ drift = 0 /\ jitter_used = 0
    /\ advances = 0 /\ first_use = Uninit

\* The state at the first iteration of the loop (main.rs:74)
Init ==
    /\ RAIN_COUNT = U32(0) /\ ROTATION_COUNT = U32(0)
    /\ \E a \in ArmOutcomes : rain_armed = a[1] /\ anemo_armed = a[2]
    /\ pc = [t \in Threads |-> IF t = Main THEN "rain_load_flag" ELSE "idle"]
    /\ angle_result = NoData
    /\ InitCommon

Next == MainStep \/ RainInterrupt \/ AnemoInterrupt

Spec == Init /\ [][Next]_vars

\* The station two ticks before its second sample is due, no pulse so far (a
\* state Spec reaches), from where the loop runs on for ever.
InitLate ==
    /\ RAIN_COUNT = U32(0) /\ ROTATION_COUNT = U32(0)
    /\ RAIN_FLAG = FALSE /\ ROTATION_FLAG = FALSE
    /\ \E a \in ArmOutcomes : rain_armed = a[1] /\ anemo_armed = a[2]
    /\ tmp = U32(0) /\ rain_err = FALSE /\ anemo_err = FALSE
    /\ LAST_TIME = Interval /\ lock = Free /\ clock = 2 * Interval - 2 * Delay
    /\ now = [t \in Threads |-> 0]
    /\ seen = [t \in Threads |-> 0]
    /\ ret = [t \in Threads |-> FALSE]
    /\ pc = [t \in Threads |-> IF t = Main THEN "rain_load_flag" ELSE "idle"]
    /\ angle_result = NoData /\ wind_direction = ""
    /\ bme_result = NoData /\ bme_readings = NoData /\ outbox = NoData
    /\ rain_signals = 0 /\ rot_signals = 0
    /\ rain_since = 0 /\ rot_since = 0
    /\ rain_batch = 0 /\ rot_batch = 0
    /\ rain_entry = RAIN_COUNT /\ rot_entry = ROTATION_COUNT
    /\ rain_overrun = 0 /\ rot_overrun = 0
    /\ fired = <<Interval>> /\ ticks_since = (Interval \div Delay) - 2
    /\ drift = 0 /\ jitter_used = 0 /\ advances = 0
    /\ first_use = 0

\* The main loop is the only runnable task of its priority: it keeps stepping.
FairSpec == InitLate /\ [][Next]_vars /\ WF_vars(MainStep)

\* The station after 2^32 - 2 pulses were counted on each channel
InitLong ==
    /\ RAIN_COUNT = <<Half - 1, Half - 2>> /\ ROTATION_COUNT = <<Half - 1, Half - 2>>
    /\ \E a \in ArmOutcomes : rain_armed = a[1] /\ anemo_armed = a[2]
    /\ pc = [t \in Threads |-> IF t = Main THEN "rain_load_flag" ELSE "idle"]
    /\ angle_result = NoData
    /\ InitCommon

SpecLong == InitLong /\ [][Next]_vars

----------------------------------------------------------------------------
(* The channels under a caller that invokes the callbacks and the two drains *)
(* in any order, one call at a time (lib.rs:39-45, 114-137)                  *)

CallBoundary == pc[Main] \in {"rain_load_flag", "rot_load_flag", "ctp_now"}

\* rain_pin_callback() is called
RainSignal ==
    /\ CallBoundary
    /\ rain_signals < MaxCalls
    /\ rain_pin_callback
    /\ UNCHANGED <<ROTATION_FLAG, ROTATION_COUNT, RAIN_COUNT, rain_armed,
                   anemo_armed, tmp, rain_err, anemo_err, rot_signals, rot_since,
                   rot_overrun, rain_batch, rot_batch, rain_entry, rot_entry,
                   time_vars, time_hist, sense_vars, pc>>

\* anemo_pin_callback() is called
AnemoSignal ==
    /\ CallBoundary
    /\ rot_signals < MaxCalls
    /\ anemo_pin_callback
    /\ UNCHANGED <<RAIN_FLAG, ROTATION_COUNT, RAIN_COUNT, rain_armed,
                   anemo_armed, tmp, rain_err, anemo_err, rain_signals, rain_since,
                   rain_overrun, rain_batch, rot_batch, rain_entry, rot_entry,
                   time_vars, time_hist, sense_vars, pc>>

\* check_rain_flag and check_rotation_flag are called again
DrainAgain ==
    /\ pc[Main] = "ctp_now"
    /\ Goto(Main, "rain_load_flag")
    /\ UNCHANGED <<chan_vars, chan_hist, time_vars, time_hist, sense_vars>>

NextChan ==
    \/ RainLoadFlag \/ RainLoadCount \/ RainStoreCount \/ RainClearFlag \/ RainRearm
    \/ RotLoadFlag \/ RotLoadCount \/ RotStoreCount \/ RotClearFlag \/ RotRearm
    \/ RainSignal \/ AnemoSignal \/ DrainAgain

SpecChan == Init /\ [][NextChan]_vars

----------------------------------------------------------------------------
(* The channels when a callback may run between any two steps of a drain     *)
(* (lib.rs:39-45, 114-137): every interleaving of the atomic accesses        *)

\* rain_pin_callback() runs, wherever the main thread is
RainPreempt ==
    /\ rain_signals < MaxCalls
    /\ rain_pin_callback
    /\ UNCHANGED <<ROTATION_FLAG, ROTATION_COUNT, RAIN_COUNT, rain_armed,
                   anemo_armed, tmp, rain_err, anemo_err, rot_signals, rot_since,
                   rot_overrun, rain_batch, rot_batch, rain_entry, rot_entry,
                   time_vars, time_hist, sense_vars, pc>>

\* anemo_pin_callback() runs, wherever the main thread is
AnemoPreempt ==
    /\ rot_signals < MaxCalls
    /\ anemo_pin_callback
    /\ UNCHANGED <<RAIN_FLAG, ROTATION_COUNT, RAIN_COUNT, rain_armed,
                   anemo_armed, tmp, rain_err, anemo_err, rain_signals, rain_since,
                   rain_overrun, rain_batch, rot_batch, rain_entry, rot_entry,
                   time_vars, time_hist, sense_vars, pc>>

NextRace ==
    \/ RainLoadFlag \/ RainLoadCount \/ RainStoreCount \/ RainClearFlag \/ RainRearm
    \/ RotLoadFlag \/ RotLoadCount \/ RotStoreCount \/ RotClearFlag \/ RotRearm
    \/ RainPreempt \/ AnemoPreempt \/ DrainAgain

SpecRace == Init /\ [][NextRace]_vars

----------------------------------------------------------------------------
(* check_time_passed under concurrent callers (lib.rs:98-110) *)

AdvanceSteps == {1, Interval - 1, Interval}

\* Time passes
ClockAdvance ==
    /\ advances < MaxAdvances
    /\ \E d \in AdvanceSteps : clock' = clock + d
    /\ advances' = advances + 1
    /\ UNCHANGED <<chan_vars, chan_hist, LAST_TIME, lock, now, seen, ret,
                   fired, ticks_since, drift, jitter_used, first_use,
                   sense_vars, pc>>

\* Thread t calls check_time_passed()
AuxCall(t) ==
    /\ pc[t] = "idle"
    /\ Goto(t, "ctp_now")
    /\ UNCHANGED <<chan_vars, chan_hist, time_vars, time_hist, sense_vars>>

\* Thread t has its result and drops the call's locals
AuxReturn(t) ==
    /\ pc[t] = "ctp_ret"
    /\ now' = [now EXCEPT ![t] = 0]
    /\ seen' = [seen EXCEPT ![t] = 0]
    /\ ret' = [ret EXCEPT ![t] = FALSE]
    /\ Goto(t, "idle")
    /\ UNCHANGED <<chan_vars, chan_hist, LAST_TIME, lock, clock,
                   time_hist, sense_vars>>

InitSched ==
    /\ RAIN_COUNT = U32(0) /\ ROTATION_COUNT = U32(0)
    /\ rain_armed = TRUE /\ anemo_armed = TRUE
    /\ pc = [t \in Threads |-> "idle"]
    /\ angle_result = NoData
    /\ InitCommon

NextSched ==
    \/ ClockAdvance
    \/ \E t \in Aux :
          \/ AuxCall(t) \/ CtpNow(t) \/ CtpLazy(t) \/ CtpLock(t)
          \/ CtpCmp(t) \/ CtpReset(t) \/ AuxReturn(t)

SpecSched == InitSched /\ [][NextSched]_vars

----------------------------------------------------------------------------
(* get_wind_direction on every answer of the angle sensor (lib.rs:154-177) *)

InitClassify ==
    /\ RAIN_COUNT = U32(0) /\ ROTATION_COUNT = U32(0)
    /\ rain_armed = TRUE /\ anemo_armed = TRUE
    /\ pc = [t \in Threads |-> IF t = Main THEN "classify" ELSE "idle"]
    /\ angle_result \in {Err} \cup {Ok(r) : r \in 0..U16Max}
    /\ InitCommon

ClassifyCall ==
    /\ pc[Main] = "classify"
    /\ wind_direction' = get_wind_direction(angle_result)
    /\ Goto(Main, "classified")
    /\ UNCHANGED <<chan_vars, chan_hist, time_vars, time_hist,
                   angle_result, bme_result, bme_readings, outbox>>

NextClassify == ClassifyCall

SpecClassify == InitClassify /\ [][NextClassify]_vars

----------------------------------------------------------------------------
(* Properties *)

RainDrainPcs == {"rain_load_count", "rain_store_count", "rain_clear_flag", "rain_rearm"}
RotDrainPcs  == {"rot_load_count", "rot_store_count", "rot_clear_flag", "rot_rearm"}

\* C1: when every callback call on a channel found the flag clear (each signal
\* was drained before the next one) and no re-arm failed, then once the drains
\* have caught up the channel's count equals the number of signals, from 0.
C1_IsolatedSignalsCounted ==
    /\ (rain_overrun = 0 /\ ~rain_err /\ ~RAIN_FLAG /\ CallBoundary)
          => RAIN_COUNT = U32(rain_signals)
    /\ (rot_overrun = 0 /\ ~anemo_err /\ ~ROTATION_FLAG /\ CallBoundary)
          => ROTATION_COUNT = U32(rot_signals)

C1_Witness ==
    /\ CallBoundary
    /\ rain_signals = MaxCalls /\ rain_overrun = 0 /\ ~rain_err /\ ~RAIN_FLAG
    /\ RAIN_COUNT = U32(MaxCalls)
    /\ rot_signals = MaxCalls /\ rot_overrun = 0 /\ ~anemo_err /\ ~ROTATION_FLAG
    /\ ROTATION_COUNT = U32(MaxCalls)

\* C3: a drain adds exactly 1 to the count when one or more signals (two
\* included) came since the previous drain, and adds 0 when none came.
C3_CoalescedSignalsCountOnce ==
    /\ pc[Main] \notin RainDrainPcs
          => RAIN_COUNT = IF rain_batch >= 1 THEN Succ32(rain_entry) ELSE rain_entry
    /\ pc[Main] \notin RotDrainPcs
          => ROTATION_COUNT = IF rot_batch >= 1 THEN Succ32(rot_entry) ELSE rot_entry

\* two signals, one count, and the last drain found nothing and added nothing
C3_Witness ==
    /\ pc[Main] = "rot_load_flag"
    /\ rain_signals = 2 /\ rain_overrun = 1
    /\ rain_batch = 0 /\ ~RAIN_FLAG
    /\ RAIN_COUNT = U32(1) /\ rain_entry = U32(1)

\* C4: a call returns true exactly when its clock reading is at least the
\* interval past the last sample time it finds, false otherwise; so after a
\* true the next true comes a full interval or more after it.
C4_TrueOncePerInterval ==
    /\ \A t \in Threads :
          pc[t] = "ctp_ret"
             => (ret[t] <=> duration_since(now[t], seen[t]) >= Interval)
    /\ \A i \in 1..(Len(fired) - 1) : fired[i + 1] - fired[i] >= Interval

\* a call made exactly one interval after the first use returned true, and a
\* call made 1 ms less than an interval after that one returned false
C4_Witness ==
    /\ fired = <<Interval>>
    /\ \E t \in Aux :
          /\ pc[t] = "ctp_ret" /\ ~ret[t]
          /\ seen[t] = Interval /\ now[t] = 2 * Interval - 1

\* C5: under any interleaving of the callers, two calls that return true have
\* clock readings a full interval or more apart.
C5_AtMostOneTruePerInterval ==
    \A i, j \in DOMAIN fired :
       i # j => (fired[i] - fired[j] >= Interval \/ fired[j] - fired[i] >= Interval)

\* two callers read the clock after the same interval had passed: one was told
\* true, the other found the time reset and was told false
C5_Witness ==
    \E t, u \in Aux :
       /\ t # u
       /\ pc[t] = "ctp_ret" /\ ret[t]
       /\ pc[u] = "ctp_ret" /\ ~ret[u]
       /\ seen[u] = now[t]
       /\ now[u] - seen[t] >= Interval

TicksPerInterval == Interval \div Delay

\* C6: a sample is taken at the 50th tick after the previous one (after the
\* first tick, for the first sample) when every tick took 200 ms; never later
\* than the 50th; and at the 49th or 50th when the ticks took up to 200 ms more
\* in all.  Interrupts on either channel do not change this.
C6_OneSamplePerFiftyTicks ==
    /\ ticks_since <= TicksPerInterval
    /\ pc[Main] = "wind" =>
          /\ drift = 0 => ticks_since = TicksPerInterval
          /\ drift <= Delay => ticks_since >= TicksPerInterval - 1

\* the second sample, 50 ticks after the first, with interrupts in between
C6_Witness ==
    /\ pc[Main] = "wind"
    /\ Len(fired) = 2
    /\ ticks_since = TicksPerInterval /\ drift = 0
    /\ rain_signals = MaxSignals /\ rot_signals = MaxSignals

\* C7: when bme.measure() fails on a sampling tick, the tick goes on to publish,
\* the published temperature, pressure and humidity are zero and the gas
\* resistance is absent, and the failing read changes no count and no flag.
C7_SensorFaultPublishesZeros ==
    /\ [](pc[Main] = "publish" /\ bme_result = Err => bme_readings = ZeroData)
    /\ [](pc[Main] = "delay" /\ bme_result = Err
             => outbox # NoData /\ outbox.bme = ZeroData)
    /\ [][bme_result' = Err /\ bme_result # Err
             => /\ pc'[Main] = "publish"
                /\ UNCHANGED <<RAIN_COUNT, ROTATION_COUNT, RAIN_FLAG, ROTATION_FLAG>>]_vars

C7_Witness ==
    /\ pc[Main] = "delay" /\ bme_result = Err
    /\ outbox # NoData /\ outbox.bme = ZeroData
    /\ outbox.counts = [rain |-> U32(1), rotation |-> U32(1)]
    /\ RAIN_COUNT = U32(1) /\ ROTATION_COUNT = U32(1)

SectorNames == <<"N", "NE", "E", "SE", "S", "SW", "W", "NW">>
SectorWidth == RawSteps \div 8

\* C10: a raw reading r in 0..4095 yields the label of sector r \div 512, so a
\* reading on a boundary, r = 512 * k, belongs to the upper sector.
C10_SectorOfReading ==
    (pc[Main] = "classified" /\ angle_result.ok /\ angle_result.value < RawSteps)
       => wind_direction = SectorNames[(angle_result.value \div SectorWidth) + 1]

C10_Witness ==
    /\ pc[Main] = "classified" /\ angle_result.ok
    /\ angle_result.value = 7 * SectorWidth
    /\ wind_direction = "NW"

\* C2: under a main loop that keeps running, the k-th signal of a channel, once
\* pending, is eventually counted (the count reaches k) and pending is cleared.
C2_PendingEventuallyCounted ==
    \A k \in 1..MaxSignals :
       /\ (RAIN_FLAG /\ rain_signals = k) ~> (~RAIN_FLAG /\ RAIN_COUNT = U32(k))
       /\ (ROTATION_FLAG /\ rot_signals = k) ~> (~ROTATION_FLAG /\ ROTATION_COUNT = U32(k))

C2_Witness ==
    /\ ~RAIN_FLAG /\ rain_signals = MaxSignals /\ RAIN_COUNT = U32(MaxSignals)
    /\ ROTATION_FLAG /\ rot_signals = MaxSignals /\ ROTATION_COUNT = U32(MaxSignals - 1)

\* C8: a failed re-arm leaves the count one above what the drain found and the
\* flag cleared, the loop goes on to the next statement, and it reaches the end
\* of the tick and the start of a later tick.
C8_RearmFailureNonFatal ==
    /\ [][(rain_err' /\ ~rain_err)
             => /\ RAIN_COUNT' = Succ32(rain_entry')
                /\ ~RAIN_FLAG'
                /\ pc'[Main] = "rot_load_flag"]_vars
    /\ [][(anemo_err' /\ ~anemo_err)
             => /\ ROTATION_COUNT' = Succ32(rot_entry')
                /\ ~ROTATION_FLAG'
                /\ pc'[Main] = "ctp_now"]_vars
    /\ (rain_err \/ anemo_err) ~> (pc[Main] = "delay")
    /\ (rain_err \/ anemo_err) ~> (pc[Main] = "rain_load_flag")

\* a tick that begins after both re-arms have failed
C8_Witness ==
    /\ rain_err /\ anemo_err
    /\ pc[Main] = "rain_load_flag"
    /\ RAIN_COUNT = U32(1) /\ ROTATION_COUNT = U32(1)
    /\ ~rain_armed /\ ~anemo_armed

\* C9: the main loop has no terminal state: whatever the sensors, the re-arms
\* and the counters do, the loop always has a next step.
C9_NoTerminalState == ENABLED MainStep

SectorLabels == {SectorNames[i] : i \in DOMAIN SectorNames}

\* C11: every successfully read raw value r >= 4096 (an angle of 360 degrees or
\* more) yields "Invalid Angle", and a sector label is returned only for a
\* successfully read r < 4096 (an angle inside [0, 360)).
C11_OutOfRangeIsInvalid ==
    pc[Main] = "classified" =>
       /\ (angle_result.ok /\ angle_result.value >= RawSteps)
             => wind_direction = "Invalid Angle"
       /\ wind_direction \in SectorLabels
             => (angle_result.ok /\ AngleNum(angle_result.value) >= Deg(0)
                                /\ AngleNum(angle_result.value) < Deg(FullTurn))

\* the first reading past the full turn
C11_Witness ==
    /\ pc[Main] = "classified" /\ angle_result.ok
    /\ angle_result.value = RawSteps
    /\ wind_direction = "Invalid Angle"

\* C12: the count wraps on overflow: once a drain that found the flag set and
\* the count at 2^32 - 1 is past its store, the count is 0; the drain then
\* clears the flag and re-arms, and the loop goes on.
C12_CountWrapsAtMax ==
    /\ (rain_entry = U32Max /\ rain_batch >= 1
           /\ pc[Main] \notin {"rain_load_count", "rain_store_count"})
          => RAIN_COUNT = U32(0)
    /\ (rot_entry = U32Max /\ rot_batch >= 1
           /\ pc[Main] \notin {"rot_load_count", "rot_store_count"})
          => ROTATION_COUNT = U32(0)

\* C13: the interrupt side is excluded while the drain works on a set flag: no
\* state has a line enabled while its flag is set, the line is disabled from
\* the drain's load of a set flag until its re-arm, and no callback runs
\* between that load and the re-arm.
C13_DrainExcludesInterrupt ==
    /\ [](~(rain_armed /\ RAIN_FLAG) /\ ~(anemo_armed /\ ROTATION_FLAG))
    /\ []((pc[Main] \in RainDrainPcs => ~rain_armed)
            /\ (pc[Main] \in RotDrainPcs => ~anemo_armed))
    /\ [][(rain_signals' # rain_signals => pc[Main] \notin RainDrainPcs)
            /\ (rot_signals' # rot_signals => pc[Main] \notin RotDrainPcs)]_vars

\* the drain of the second rain pulse, about to clear the flag
C13_Witness ==
    /\ pc[Main] = "rain_clear_flag"
    /\ RAIN_FLAG /\ ~rain_armed
    /\ rain_signals = MaxSignals /\ RAIN_COUNT = U32(MaxSignals)

\* C14: a drain call that finds the flag clear returns at once: the count, the
\* flag and the line are as they were, and enable_interrupt is not called (no
\* re-arm step, no logged error).
C14_DrainOfClearFlagIsNoOp ==
    /\ [][(pc[Main] = "rain_load_flag" /\ pc'[Main] # "rain_load_flag" /\ ~RAIN_FLAG)
             => /\ pc'[Main] = "rot_load_flag"
                /\ UNCHANGED <<RAIN_COUNT, RAIN_FLAG, rain_armed, rain_err>>]_vars
    /\ [][(pc[Main] = "rot_load_flag" /\ pc'[Main] # "rot_load_flag" /\ ~ROTATION_FLAG)
             => /\ pc'[Main] = "ctp_now"
                /\ UNCHANGED <<ROTATION_COUNT, ROTATION_FLAG, anemo_armed, anemo_err>>]_vars

\* a drain found the flag clear on a line whose re-arm had failed, and left the
\* line disabled
C14_Witness ==
    /\ pc[Main] = "rot_load_flag"
    /\ rain_batch = 0 /\ ~RAIN_FLAG
    /\ RAIN_COUNT = U32(1) /\ rain_entry = U32(1)
    /\ rain_err /\ ~rain_armed

\* C15: the step by which a call gets its result (the lock is held since the
\* comparison): a false result leaves the last time as the call found it, a
\* true result leaves it equal to the clock value the call read; the result is
\* true exactly when that clock value minus the last time found is at least
\* the interval.  Nothing but a call returning true changes an initialised
\* last time.
C15_FalseKeepsTrueSets ==
    /\ [][\A t \in Threads :
             (pc[t] # "ctp_ret" /\ pc'[t] = "ctp_ret")
                => /\ ret'[t] <=> (now[t] - seen'[t] >= Interval)
                   /\ IF ret'[t]
                      THEN LAST_TIME' = now[t]
                      ELSE LAST_TIME' = LAST_TIME /\ LAST_TIME = seen'[t]]_vars
    /\ [][(LAST_TIME # Uninit /\ LAST_TIME' # LAST_TIME)
             => \E t \in Threads :
                   pc[t] # "ctp_ret" /\ pc'[t] = "ctp_ret" /\ ret'[t]]_vars

\* one call read the clock exactly one interval after the last time, the clock
\* moved on, and the call set the last time to what it had read; another call
\* then read the later clock, was told false and left the last time alone
C15_Witness ==
    \E t, u \in Aux :
       /\ pc[t] = "ctp_ret" /\ ret[t]
       /\ now[t] = Interval /\ seen[t] = 0
       /\ pc[u] = "ctp_ret" /\ ~ret[u]
       /\ now[u] = Interval + 1 /\ seen[u] = Interval
       /\ LAST_TIME = Interval

\* C16: when as5600.angle() fails on a sampling tick, the wind direction of the
\* tick, and what is handed to the publisher, is "NA", which is neither a
\* sector label nor "Invalid Angle" (no angle was classified).
C16_AngleFaultPublishesNA ==
    /\ (pc[Main] \in {"bme", "publish"} /\ angle_result = Err)
          => /\ wind_direction = "NA"
             /\ wind_direction \notin SectorLabels \cup {"Invalid Angle"}
    /\ (pc[Main] = "delay" /\ angle_result = Err)
          => /\ outbox # NoData
             /\ outbox.wind = "NA"
             /\ outbox.wind \notin SectorLabels \cup {"Invalid Angle"}

\* the angle sensor failed, the environmental sensor did not
C16_Witness ==
    /\ pc[Main] = "delay" /\ angle_result = Err /\ bme_result # Err
    /\ outbox # NoData /\ outbox.wind = "NA"

\* C17: whatever the interleaving of the callbacks with the single steps of the
\* drains, a channel's count never exceeds the number of callback calls made on
\* the channel, and the count changes only in the drain's store.
C17_NoEventCountedTwice ==
    /\ [](/\ RAIN_COUNT[1] = 0 /\ RAIN_COUNT[2] <= rain_signals
          /\ ROTATION_COUNT[1] = 0 /\ ROTATION_COUNT[2] <= rot_signals)
    /\ [][/\ RAIN_COUNT' # RAIN_COUNT => pc[Main] = "rain_store_count"
          /\ ROTATION_COUNT' # ROTATION_COUNT => pc[Main] = "rot_store_count"]_vars

\* a second callback call came between the drain's load of the count and its
\* clearing of the flag: the drain is over, two signals, a count of one
C17_Witness ==
    /\ pc[Main] = "rot_load_flag"
    /\ rain_signals = 2 /\ rain_since = 1 /\ rain_batch = 1
    /\ ~RAIN_FLAG /\ RAIN_COUNT = U32(1)

\* C18: once a re-arm of a channel has failed, the line stays disabled, the
\* drain never reaches its re-arm again, the flag stays clear and the count
\* stays as it is, for the rest of the run.
C18_FailedRearmSilencesChannel ==
    /\ [](rain_err => (~rain_armed /\ ~RAIN_FLAG /\ pc[Main] \notin RainDrainPcs))
    /\ [](anemo_err => (~anemo_armed /\ ~ROTATION_FLAG /\ pc[Main] \notin RotDrainPcs))
    /\ [][/\ rain_err => (RAIN_COUNT' = RAIN_COUNT /\ rain_signals' = rain_signals)
          /\ anemo_err => (ROTATION_COUNT' = ROTATION_COUNT
                             /\ rot_signals' = rot_signals)]_vars

\* the rain line's first re-arm failed; a sample later the rain count is still
\* 1 while the anemometer has counted all its pulses
C18_Witness ==
    /\ rain_err /\ ~anemo_err
    /\ pc[Main] = "delay" /\ Len(fired) = 1
    /\ RAIN_COUNT = U32(1) /\ rain_signals = 1
    /\ ROTATION_COUNT = U32(MaxSignals) /\ rot_signals = MaxSignals

\* C19: LAST_TIME is initialised by the first call that uses it, to the clock
\* at that moment, which is not before that call's own clock reading; a call
\* whose reading is not after that moment (the first call, and any call begun
\* before it) returns false; and the first true result has a clock reading a
\* full interval or more after that moment.
C19_FirstUseStartsInterval ==
    /\ []((LAST_TIME = Uninit) <=> (first_use = Uninit))
    /\ [](LAST_TIME = Uninit => fired = <<>>)
    /\ [][(LAST_TIME = Uninit /\ LAST_TIME' # Uninit)
             => /\ LAST_TIME' = first_use'
                /\ \E t \in Threads :
                      /\ pc[t] = "ctp_lazy" /\ pc'[t] = "ctp_lock"
                      /\ first_use' >= now[t]]_vars
    /\ [](first_use # Uninit =>
            /\ \A t \in Threads :
                  (pc[t] = "ctp_ret" /\ now[t] <= first_use) => ~ret[t]
            /\ Len(fired) >= 1 => fired[1] - first_use >= Interval)

\* the first call came when the clock stood at one interval less 1 ms: the
\* first true result is a full interval after that call
C19_Witness ==
    /\ first_use = Interval - 1
    /\ fired = <<2 * Interval - 1>>
    /\ \E t \in Aux : pc[t] = "ctp_ret" /\ ret[t]

\* C20: an initialised LAST_TIME never decreases; a caller that finds, at its
\* comparison, a LAST_TIME later than the clock value it read returns false and
\* leaves LAST_TIME as it is.
C20_LastTimeNeverDecreases ==
    /\ [][LAST_TIME # Uninit => LAST_TIME' >= LAST_TIME]_vars
    /\ [][\A t \in Threads :
             (pc[t] = "ctp_cmp" /\ pc'[t] # "ctp_cmp" /\ now[t] < LAST_TIME)
                => (pc'[t] = "ctp_ret" /\ ~ret'[t] /\ LAST_TIME' = LAST_TIME)]_vars

\* a caller read the clock at 0, another caller then reset LAST_TIME to a full
\* interval later, and the first caller was told false
C20_Witness ==
    \E t, u \in Aux :
       /\ pc[t] = "ctp_ret" /\ ~ret[t]
       /\ now[t] = 0 /\ seen[t] = Interval
       /\ pc[u] = "ctp_ret" /\ ret[u] /\ now[u] = Interval
       /\ LAST_TIME = Interval

====
